---- MODULE Spec2Model ----
(***************************************************************************)
(* Medical document portal (Django): upload / list / download / delete /   *)
(* analyze of PDF documents.  The state is the upload directory (files),   *)
(* the documents table (records) and the position and locals of every      *)
(* request in flight.  Requests are handled by concurrent workers, so each *)
(* view is modelled as the sequence of its database and filesystem steps.  *)
(*                                                                         *)
(* A filename is a sequence of character codes.  File content is a record  *)
(* [head, pad]: the bytes of head followed by pad zero bytes, so that a    *)
(* file larger than MAX_FILE_SIZE can be an input.                         *)
(***************************************************************************)
EXTENDS Integers, Sequences, FiniteSets, TLC

(* ---------------- bounds of the model ---------------- *)
NumReqs == 2
MaxDocs == 1
MaxPaths == 2
ChunkSize == 4

(* ---------------- program constants ---------------- *)
MAX_FILE_SIZE == 10 * 1024 * 1024
MAX_NAME_LEN == 255
PDF_EXT == <<46, 112, 100, 102>>
ALLOWED_EXTENSIONS == {PDF_EXT}
ALLOWED_MIME_TYPES == {"application/pdf"}
PDF_HEADER == <<37, 80, 68, 70>>
MAGIC_PDF_SIGNATURE == <<37, 80, 68, 70, 45>>

\* Spec runs NumReqs workers; SpecAnalysis runs one more
Reqs == 1..(NumReqs + 1)
Workers == 1..NumReqs
Paths == 1..MaxPaths
\* what a path without a file, and an id without a row, map to
NoFile == [head |-> <<>>, pad |-> -1]
NoDoc == [id |-> 0]
\* a null analysis_result, a null analyzed_at
Null == "Null"
NullTime == 0
NoPath == MaxPaths + 1

(* ---------------- inputs ---------------- *)
\* "a.pdf", "a.txt", "a..pdf", "a..txt" (Django hands the view the basename
\* of the submitted name, so a name with a separator never arrives)
Names ==
    { <<97, 46, 112, 100, 102>>,
      <<97, 46, 116, 120, 116>>,
      <<97, 46, 46, 112, 100, 102>>,
      <<97, 46, 46, 116, 120, 116>> }
\* "%PDF-1", "%PDF", one zero byte, and a PDF of MAX_FILE_SIZE + 1 bytes
Contents ==
    { [head |-> <<37, 80, 68, 70, 45, 49>>, pad |-> 0],
      [head |-> <<37, 80, 68, 70>>, pad |-> 0],
      [head |-> <<0>>, pad |-> 0],
      [head |-> <<37, 80, 68, 70, 45>>, pad |-> MAX_FILE_SIZE - 4] }
ContentTypes == {"application/pdf", "text/plain"}
\* uploads around the size limit: MAX_FILE_SIZE - 1, MAX_FILE_SIZE,
\* MAX_FILE_SIZE + 1, 11 MiB and 12 MiB of zero bytes after "%PDF-"
LargeContents ==
    { [head |-> <<37, 80, 68, 70, 45>>, pad |-> n - 5] :
          n \in { MAX_FILE_SIZE - 1, MAX_FILE_SIZE, MAX_FILE_SIZE + 1,
                  11 * 1024 * 1024, 12 * 1024 * 1024 } }
RequestIds == 0..MaxDocs

(* ---------------- byte strings ---------------- *)
Min(a, b) == IF a < b THEN a ELSE b

Size(c) == Len(c.head) + c.pad

EmptyContent == [head |-> <<>>, pad |-> 0]

\* bytes [from+1 .. to] of c
Slice(c, from, to) ==
    LET h == Len(c.head)
    IN  [head |-> IF from >= h THEN <<>> ELSE SubSeq(c.head, from + 1, Min(to, h)),
         pad  |-> IF to <= h THEN 0 ELSE to - (IF from > h THEN from ELSE h)]

\* destination.write(chunk) at the end of the file
WriteChunkMutant(f, chunk) == IF Size(f) = 0 THEN chunk ELSE f

WriteChunk(f, chunk) ==
    IF f.pad = 0
    THEN [head |-> f.head \o chunk.head, pad |-> chunk.pad]
    ELSE [head |-> f.head, pad |-> f.pad + Len(chunk.head) + chunk.pad]

\* uploaded_file.chunks(): the chunk that starts at offset w
NextChunk(c, w) == Slice(c, w, Min(w + ChunkSize, Size(c)))

\* f.read(n)
ReadPrefix(c, n) == Slice(c, 0, Min(n, Size(c))).head

StartsWith(s, p) == Len(s) >= Len(p) /\ SubSeq(s, 1, Len(p)) = p

(* ---------------- filenames ---------------- *)
Lower(ch) == IF ch >= 65 /\ ch <= 90 THEN ch + 32 ELSE ch

LowerStr(s) == [i \in 1..Len(s) |-> Lower(s[i])]

IsAlnum(ch) ==
    \/ ch >= 48 /\ ch <= 57
    \/ ch >= 65 /\ ch <= 90
    \/ ch >= 97 /\ ch <= 122

\* ".-_()[]{}"
SafePunctuation == {46, 45, 95, 40, 41, 91, 93, 123, 125}

LastIndexOf(s, ch) ==
    LET hits == {i \in 1..Len(s) : s[i] = ch}
    IN  IF hits = {} THEN 0 ELSE CHOOSE i \in hits : \A j \in hits : j <= i

\* os.path.splitext(name)[1]: from the last dot, unless that dot is leading
SplitExt(s) ==
    LET dot == LastIndexOf(s, 46)
        sep == LastIndexOf(s, 47)
    IN  IF dot > sep /\ (\E j \in (sep + 1)..(dot - 1) : s[j] # 46)
        THEN SubSeq(s, dot, Len(s))
        ELSE <<>>

EndsWith(s, suffix) ==
    Len(s) >= Len(suffix) /\ SubSeq(s, Len(s) - Len(suffix) + 1, Len(s)) = suffix

validate_filename_safety(filename) ==
    IF filename = <<>> THEN "Filename cannot be empty"
    ELSE IF \/ \E i \in 1..(Len(filename) - 1) : filename[i] = 46 /\ filename[i + 1] = 46
            \/ \E i \in 1..Len(filename) : filename[i] \in {47, 92}
         THEN "Filename contains invalid path characters"
    ELSE IF \E i \in 1..Len(filename) : filename[i] < 32
         THEN "Filename contains invalid control characters"
    ELSE IF Len(filename) > MAX_NAME_LEN THEN "Filename too long"
    ELSE "ok"

validate_file_extension(filename) ==
    IF filename = <<>> THEN "Filename cannot be empty"
    ELSE IF SplitExt(LowerStr(filename)) \notin ALLOWED_EXTENSIONS
         THEN "File extension not allowed"
    ELSE "ok"

validate_file_size_mutant(file_size) ==
    IF file_size >= MAX_FILE_SIZE THEN "File size exceeds maximum" ELSE "ok"

validate_file_size(file_size) ==
    IF file_size > MAX_FILE_SIZE THEN "File size exceeds maximum" ELSE "ok"

validate_mime_type(content_type) ==
    IF content_type # "" /\ content_type \notin ALLOWED_MIME_TYPES
    THEN "MIME type not allowed"
    ELSE "ok"

\* the first failing check, in the order the code runs them
validate_uploaded_file_mutant(name, size, content_type) ==
    IF validate_file_size(size) # "ok" THEN validate_file_size(size)
    ELSE IF validate_filename_safety(name) # "ok" THEN validate_filename_safety(name)
    ELSE IF validate_file_extension(name) # "ok" THEN validate_file_extension(name)
    ELSE validate_mime_type(content_type)

validate_uploaded_file(name, size, content_type) ==
    IF validate_filename_safety(name) # "ok" THEN validate_filename_safety(name)
    ELSE IF validate_file_extension(name) # "ok" THEN validate_file_extension(name)
    ELSE IF validate_file_size(size) # "ok" THEN validate_file_size(size)
    ELSE validate_mime_type(content_type)

sanitize_filename(filename) ==
    IF filename = <<>>
    THEN <<117, 110, 110, 97, 109, 101, 100, 95, 102, 105, 108, 101>> \o PDF_EXT
    ELSE LET sanitized == [i \in 1..Len(filename) |->
                              IF IsAlnum(filename[i]) \/ filename[i] \in SafePunctuation
                              THEN filename[i] ELSE 95]
             suffixed == IF EndsWith(LowerStr(sanitized), PDF_EXT)
                         THEN sanitized ELSE sanitized \o PDF_EXT
         IN  SubSeq(suffixed, 1, Min(Len(suffixed), MAX_NAME_LEN))

\* validate_file_content on an existing file: TRUE when it raises FileValidationError
ContentRejected(magic_available, c) ==
    IF magic_available
    THEN ~StartsWith(ReadPrefix(c, Len(MAGIC_PDF_SIGNATURE)), MAGIC_PDF_SIGNATURE)
    ELSE ReadPrefix(c, 4) # PDF_HEADER

(* ---------------- state ---------------- *)
VARIABLES
    files,            \* the upload directory: path -> content, or NoFile
    records,          \* the documents table: id -> row, or NoDoc
    nextId,           \* the table's auto-increment sequence
    uuidCount,        \* how many uuid4 values have been drawn
    clock,            \* timezone.now()
    api_key,          \* whether MISTRAL_API_KEY is configured
    req               \* the requests in flight: worker -> position and locals

vars == <<files, records, nextId, uuidCount, clock, api_key, req>>

\* the primary keys the table has room for
Ids == DOMAIN records

Idle ==
    [op |-> "idle", pc |-> "idle", name |-> <<>>, content |-> EmptyContent,
     content_type |-> "", file_path |-> NoPath, written |-> 0, id |-> 0, document |-> NoDoc,
     file_deleted |-> FALSE, code |-> 0, body |-> [error |-> ""]]

\* Document(filename, filepath, filesize) as the model's defaults leave it
NewDocument(filename, filepath, filesize) ==
    [id |-> 0, filename |-> filename, filepath |-> filepath, filesize |-> filesize,
     created_at |-> 0, analysis_status |-> "pending", analysis_result |-> Null,
     analyzed_at |-> NullTime]

(* ---------------- storage service ---------------- *)
file_exists(fs, file_path) == file_path \in Paths /\ fs[file_path] # NoFile

get_file_size(fs, file_path) ==
    IF file_exists(fs, file_path) THEN Size(fs[file_path]) ELSE 0

\* the directory after delete_file(file_path); its result is file_exists before
delete_file_mutant(fs, file_path) == fs

delete_file(fs, file_path) ==
    IF file_exists(fs, file_path) THEN [fs EXCEPT ![file_path] = NoFile] ELSE fs

\* what delete_file(file_path) returns: True when it removed the file
delete_file_result_mutant(fs, file_path) == TRUE

delete_file_result(fs, file_path) == file_exists(fs, file_path)

\* uuid4(): a value never drawn before
generate_unique_filename_mutant(count) == 1

generate_unique_filename_reused(count) == IF count = 0 THEN 1 ELSE count

generate_unique_filename(count) == count + 1

(* ---------------- database service ---------------- *)
get_document_by_id(recs, document_id) ==
    IF document_id \in Ids THEN recs[document_id] ELSE NoDoc

\* Model.save() of an instance that has a primary key: UPDATE, and INSERT when
\* no row was updated
save_document(recs, document) == [recs EXCEPT ![document.id] = document]

\* the response of request r; its locals die with the call
Respond(r, code, error) ==
    req' = [req EXCEPT ![r] = [Idle EXCEPT !.op = req[r].op, !.pc = "done",
                                  !.id = req[r].id, !.file_path = req[r].file_path,
                                  !.code = code,
                                  !.body = [error |-> error]]]

DocumentSerializer(document) ==
    [id |-> document.id, filename |-> document.filename,
     filesize |-> document.filesize, created_at |-> document.created_at,
     analysis_status |-> document.analysis_status,
     analyzed_at |-> document.analyzed_at]

Free(r) == req[r].op = "idle"

UploadsInFlight == {r \in Workers : req[r].op = "upload" /\ req[r].pc # "done"}

Init ==
    /\ files = [p \in Paths |-> NoFile]
    /\ records = [i \in 1..MaxDocs |-> NoDoc]
    /\ nextId = 1
    /\ uuidCount = 0
    /\ clock = 0
    /\ api_key \in BOOLEAN
    /\ req = [r \in Reqs |-> Idle]

(* ---------------- upload_document ---------------- *)
\* serializer.is_valid() fails: 400 with the serializer's errors
RejectUpload(r, name, content, content_type) ==
    /\ Free(r)
    /\ validate_uploaded_file(name, Size(content), content_type) # "ok"
    /\ req' = [req EXCEPT ![r] = [Idle EXCEPT !.op = "upload", !.pc = "done",
                   !.name = name, !.content = content, !.content_type = content_type,
                   !.code = 400,
                   !.body = [error |-> validate_uploaded_file(name, Size(content),
                                                              content_type)]]]
    /\ UNCHANGED <<files, records, nextId, uuidCount, clock, api_key>>

UploadRejected(r) ==
    \E name \in Names, content \in Contents, content_type \in ContentTypes :
        RejectUpload(r, name, content, content_type)

\* validation passes; save_file draws its path and opens it with 'wb+'
OpenUpload(r, name, content, content_type) ==
    /\ Free(r)
    /\ uuidCount < MaxPaths
    /\ nextId + Cardinality(UploadsInFlight) <= Cardinality(Ids)
    /\ validate_uploaded_file(name, Size(content), content_type) = "ok"
    /\ LET path == generate_unique_filename(uuidCount)
       IN  /\ uuidCount' = uuidCount + 1
           /\ files' = [files EXCEPT ![path] = EmptyContent]
           /\ req' = [req EXCEPT ![r] = [Idle EXCEPT !.op = "upload", !.pc = "write",
                          !.name = name, !.content = content,
                          !.content_type = content_type, !.file_path = path]]
    /\ UNCHANGED <<records, nextId, clock, api_key>>

UploadOpen(r) ==
    \E name \in Names, content \in Contents, content_type \in ContentTypes :
        OpenUpload(r, name, content, content_type)

\* for chunk in uploaded_file.chunks(): destination.write(chunk)
UploadWrite(r) ==
    /\ req[r].op = "upload" /\ req[r].pc = "write"
    /\ req[r].written < Size(req[r].content)
    /\ LET chunk == NextChunk(req[r].content, req[r].written)
       IN  /\ files' = IF file_exists(files, req[r].file_path)
                       THEN [files EXCEPT ![req[r].file_path] = WriteChunk(@, chunk)]
                       ELSE files
           /\ req' = [req EXCEPT ![r].written = @ + Size(chunk)]
    /\ UNCHANGED <<records, nextId, uuidCount, clock, api_key>>

\* a write raises (disk full, I/O error): save_file never returns, so the
\* view's file_path is unbound and its handler removes nothing
UploadWriteFail(r) ==
    /\ req[r].op = "upload" /\ req[r].pc = "write"
    /\ req[r].written < Size(req[r].content)
    /\ Respond(r, 500, "Failed to save file: write error")
    /\ UNCHANGED <<files, records, nextId, uuidCount, clock, api_key>>

\* save_file returns; the view checks file_exists(file_path)
UploadVerifySkipped(r) ==
    /\ req[r].op = "upload" /\ req[r].pc = "write"
    /\ req[r].written = Size(req[r].content)
    /\ req' = [req EXCEPT ![r].pc = "content"]
    /\ UNCHANGED <<files, records, nextId, uuidCount, clock, api_key>>

UploadVerifyEarly(r) ==
    /\ req[r].op = "upload" /\ req[r].pc = "write"
    /\ req[r].written > 0
    /\ IF file_exists(files, req[r].file_path)
       THEN req' = [req EXCEPT ![r].pc = "content"]
       ELSE Respond(r, 500, "Failed to save file to storage")
    /\ UNCHANGED <<files, records, nextId, uuidCount, clock, api_key>>

UploadVerify(r) ==
    /\ req[r].op = "upload" /\ req[r].pc = "write"
    /\ req[r].written = Size(req[r].content)
    /\ IF file_exists(files, req[r].file_path)
       THEN req' = [req EXCEPT ![r].pc = "content"]
       ELSE Respond(r, 500, "Failed to save file to storage")
    /\ UNCHANGED <<files, records, nextId, uuidCount, clock, api_key>>

\* whether python-magic can be imported is a fact of the deployment
MAGIC_AVAILABLE == BOOLEAN

\* validate_file_content raises: the file is removed and the answer is 400
UploadContentRejected(r) ==
    /\ req[r].op = "upload" /\ req[r].pc = "content"
    /\ \/ ~file_exists(files, req[r].file_path)
       \/ /\ file_exists(files, req[r].file_path)
          /\ \E magic \in MAGIC_AVAILABLE :
                 ContentRejected(magic, files[req[r].file_path])
    /\ files' = delete_file(files, req[r].file_path)
    /\ Respond(r, 400, "File content validation failed")
    /\ UNCHANGED <<records, nextId, uuidCount, clock, api_key>>

UploadContentAccepted(r) ==
    /\ req[r].op = "upload" /\ req[r].pc = "content"
    /\ file_exists(files, req[r].file_path)
    /\ \E magic \in MAGIC_AVAILABLE : ~ContentRejected(magic, files[req[r].file_path])
    /\ req' = [req EXCEPT ![r].pc = "create"]
    /\ UNCHANGED <<files, records, nextId, uuidCount, clock, api_key>>

\* the row create_document_record inserts
create_document_record_mutant(filename, filepath, filesize, id, now) ==
    [NewDocument(filename, filepath, filesize + 1) EXCEPT !.id = id, !.created_at = now]

create_document_record(filename, filepath, filesize, id, now) ==
    [NewDocument(filename, filepath, filesize) EXCEPT !.id = id, !.created_at = now]

UploadCreate(r) ==
    /\ req[r].op = "upload" /\ req[r].pc = "create"
    /\ LET document == create_document_record(sanitize_filename(req[r].name),
                           req[r].file_path, Size(req[r].content), nextId, clock + 1)
       IN  /\ records' = [records EXCEPT ![nextId] = document]
           /\ req' = [req EXCEPT ![r] = [@ EXCEPT !.pc = "done", !.code = 201,
                          !.document = document, !.body = DocumentSerializer(document)]]
    /\ nextId' = nextId + 1
    /\ clock' = clock + 1
    /\ UNCHANGED <<files, uuidCount, api_key>>

UploadCreateFailNoCleanup(r) ==
    /\ req[r].op = "upload" /\ req[r].pc = "create"
    /\ Respond(r, 500, "Failed to save file: database error")
    /\ UNCHANGED <<files, records, nextId, uuidCount, clock, api_key>>

\* create_document_record raises: the handler removes the file it finds
UploadCreateFail(r) ==
    /\ req[r].op = "upload" /\ req[r].pc = "create"
    /\ files' = delete_file(files, req[r].file_path)
    /\ Respond(r, 500, "Failed to save file: database error")
    /\ UNCHANGED <<records, nextId, uuidCount, clock, api_key>>

(* ---------------- ids ---------------- *)
\* validate_document_id: the id, or 0 when it raises ValidationError
validate_document_id_mutant(document_id) == IF document_id <= 0 THEN 1 ELSE document_id

validate_document_id(document_id) == IF document_id <= 0 THEN 0 ELSE document_id

\* the fields of a fetched document that delete and download read
FileOf(document) ==
    [id |-> document.id, filename |-> document.filename,
     filepath |-> document.filepath, filesize |-> document.filesize]

(* ---------------- delete_document ---------------- *)
DeleteStart(r) ==
    \E id \in RequestIds :
        /\ Free(r)
        /\ LET document == get_document_by_id(records, validate_document_id(id))
               started == [Idle EXCEPT !.op = "delete", !.id = id]
           IN  req' = [req EXCEPT ![r] =
                   IF validate_document_id(id) = 0
                   THEN [started EXCEPT !.pc = "done", !.code = 400,
                            !.body = [error |-> "Document ID must be a positive integer"]]
                   ELSE IF document = NoDoc
                   THEN [started EXCEPT !.pc = "done", !.code = 404,
                            !.body = [error |-> "Document not found"]]
                   ELSE [started EXCEPT !.pc = "del_file", !.document = FileOf(document)]]
        /\ UNCHANGED <<files, records, nextId, uuidCount, clock, api_key>>

\* file_deleted = DocumentStorageService.delete_file(document.filepath)
DeleteFile(r) ==
    /\ req[r].op = "delete" /\ req[r].pc = "del_file"
    /\ files' = delete_file(files, req[r].document.filepath)
    /\ req' = [req EXCEPT ![r].pc = "del_rec",
                          ![r].file_deleted =
                              delete_file_result(files, req[r].document.filepath)]
    /\ UNCHANGED <<records, nextId, uuidCount, clock, api_key>>

\* the table after delete_document_record(document_id)
delete_document_record_mutant(recs, document_id) == recs

delete_document_record(recs, document_id) == [recs EXCEPT ![document_id] = NoDoc]

\* delete_document_record: Document.objects.get, then Document.delete, which
\* removes the row's file when it finds one
DeleteRecord(r) ==
    /\ req[r].op = "delete" /\ req[r].pc = "del_rec"
    /\ LET row == get_document_by_id(records, req[r].id)
       IN  IF row = NoDoc
           THEN /\ Respond(r, 500, "Failed to delete document record")
                /\ UNCHANGED <<files, records>>
           ELSE /\ files' = delete_file(files, row.filepath)
                /\ records' = delete_document_record(records, req[r].id)
                /\ req' = [req EXCEPT ![r] = [Idle EXCEPT !.op = "delete", !.pc = "done",
                       !.id = req[r].id, !.file_path = req[r].document.filepath,
                       !.file_deleted = req[r].file_deleted, !.code = 200,
                       !.body = [error |-> "", message |->
                           IF req[r].file_deleted
                           THEN "Document deleted successfully"
                           ELSE "Document deleted successfully (file was already missing)"]]]
    /\ UNCHANGED <<nextId, uuidCount, clock, api_key>>

(* ---------------- download_document ---------------- *)
DownloadStart(r) ==
    \E id \in RequestIds :
        /\ Free(r)
        /\ LET document == get_document_by_id(records, validate_document_id(id))
               started == [Idle EXCEPT !.op = "download", !.id = id]
           IN  req' = [req EXCEPT ![r] =
                   IF validate_document_id(id) = 0
                   THEN [started EXCEPT !.pc = "done", !.code = 400,
                            !.body = [error |-> "Invalid document ID"]]
                   ELSE IF document = NoDoc
                   THEN [started EXCEPT !.pc = "done", !.code = 404,
                            !.body = [error |-> "Document not found"]]
                   ELSE [started EXCEPT !.pc = "dl_check", !.document = FileOf(document)]]
        /\ UNCHANGED <<files, records, nextId, uuidCount, clock, api_key>>

\* if not file_exists(document.filepath): raise Http404
DownloadCheck(r) ==
    /\ req[r].op = "download" /\ req[r].pc = "dl_check"
    /\ IF file_exists(files, req[r].document.filepath)
       THEN req' = [req EXCEPT ![r].pc = "dl_open"]
       ELSE Respond(r, 404, "File not found on disk")
    /\ UNCHANGED <<files, records, nextId, uuidCount, clock, api_key>>

\* FileResponse(open(document.filepath, 'rb')) with the record's name and size
DownloadOpen(r) ==
    /\ req[r].op = "download" /\ req[r].pc = "dl_open"
    /\ IF file_exists(files, req[r].document.filepath)
       THEN req' = [req EXCEPT ![r] = [Idle EXCEPT !.op = "download", !.pc = "done",
                       !.id = req[r].id, !.code = 200,
                       !.body = [filename |-> req[r].document.filename,
                                 content_length |-> req[r].document.filesize,
                                 content |-> files[req[r].document.filepath]]]]
       ELSE Respond(r, 500, "Failed to serve file")
    /\ UNCHANGED <<files, records, nextId, uuidCount, clock, api_key>>

(* ---------------- list_documents ---------------- *)
\* Document.objects.all() under Meta.ordering = ['-created_at']: the ids,
\* newest first
RECURSIVE OrderByNewest(_, _)
OrderByNewest(recs, ids) ==
    IF ids = {} THEN <<>>
    ELSE LET newest == CHOOSE i \in ids :
                 \A j \in ids : recs[j].created_at <= recs[i].created_at
         IN  <<newest>> \o OrderByNewest(recs, ids \ {newest})

\* the same rows, oldest first
get_all_documents_mutant(recs) ==
    LET newest_first == OrderByNewest(recs, {i \in Ids : recs[i] # NoDoc})
    IN  [k \in 1..Len(newest_first) |-> newest_first[Len(newest_first) + 1 - k]]

get_all_documents(recs) == OrderByNewest(recs, {i \in Ids : recs[i] # NoDoc})

ListDocuments(r) ==
    /\ Free(r)
    /\ req' = [req EXCEPT ![r] = [Idle EXCEPT !.op = "list", !.pc = "done", !.code = 200,
                   !.body = [documents |-> get_all_documents(records),
                             count |-> Len(get_all_documents(records))]]]
    /\ UNCHANGED <<files, records, nextId, uuidCount, clock, api_key>>

(* ---------------- health_check ---------------- *)
\* save_file of the probe upload "health_check.pdf"
HealthSave(r) ==
    /\ Free(r)
    /\ uuidCount < MaxPaths
    /\ LET path == generate_unique_filename(uuidCount)
       IN  /\ uuidCount' = uuidCount + 1
           /\ files' = [files EXCEPT ![path] = [head |-> <<104, 101, 97, 108, 116, 104>>,
                                                 pad |-> 0]]
           /\ req' = [req EXCEPT ![r] = [Idle EXCEPT !.op = "health", !.pc = "probe",
                          !.file_path = path]]
    /\ UNCHANGED <<records, nextId, clock, api_key>>

\* file_exists, delete_file, Document.objects.count()
HealthProbe(r) ==
    /\ req[r].op = "health" /\ req[r].pc = "probe"
    /\ files' = delete_file(files, req[r].file_path)
    /\ req' = [req EXCEPT ![r] = [Idle EXCEPT !.op = "health", !.pc = "done",
                   !.file_path = req[r].file_path,
                   !.code = IF file_exists(files, req[r].file_path) THEN 200 ELSE 503,
                   !.body = [document_count |->
                                 Cardinality({i \in Ids : records[i] # NoDoc})]]]
    /\ UNCHANGED <<records, nextId, uuidCount, clock, api_key>>

(* ---------------- analyze_document ---------------- *)
AnalyzeStart(r) ==
    \E id \in RequestIds :
        /\ Free(r)
        /\ LET document == get_document_by_id(records, validate_document_id(id))
               started == [Idle EXCEPT !.op = "analyze", !.id = id]
           IN  req' = [req EXCEPT ![r] =
                   IF validate_document_id(id) = 0
                   THEN [started EXCEPT !.pc = "done", !.code = 400,
                            !.body = [error |-> "Document ID must be a positive integer"]]
                   ELSE IF document = NoDoc
                   THEN [started EXCEPT !.pc = "done", !.code = 404,
                            !.body = [error |-> "Document not found"]]
                   ELSE [started EXCEPT !.pc = "an_check", !.document = document]]
        /\ UNCHANGED <<files, records, nextId, uuidCount, clock, api_key>>

\* the view's "already analyzing" test on the document it fetched
AlreadyAnalyzingMutant(document) == FALSE

AlreadyAnalyzing(document) == document.analysis_status = "processing"

\* get_analyzer(): whether a DocumentAnalyzer could be built, which needs
\* MISTRAL_API_KEY
get_analyzer_mutant(key) == TRUE

get_analyzer(key) == key

\* the view's checks, in its order: the file, the analyzer, the status
AnalyzeCheck(r) ==
    /\ req[r].op = "analyze" /\ req[r].pc = "an_check"
    /\ IF ~file_exists(files, req[r].document.filepath)
       THEN Respond(r, 404, "Physical file not found")
       ELSE IF ~get_analyzer(api_key)
       THEN Respond(r, 503, "AI analyzer not available")
       ELSE IF AlreadyAnalyzing(req[r].document)
       THEN Respond(r, 202, "Document analysis is already in progress")
       ELSE req' = [req EXCEPT ![r].pc = "an_mark"]
    /\ UNCHANGED <<files, records, nextId, uuidCount, clock, api_key>>

MarkProcessingMutant(document) == document

MarkProcessing(document) == [document EXCEPT !.analysis_status = "processing"]

\* analyze_document: document.analysis_status = 'processing'; document.save()
AnalyzeMark(r) ==
    /\ req[r].op = "analyze" /\ req[r].pc = "an_mark"
    /\ records' = save_document(records, MarkProcessing(req[r].document))
    /\ req' = [req EXCEPT ![r].pc = "an_extract",
                          ![r].document = MarkProcessing(req[r].document)]
    /\ UNCHANGED <<files, nextId, uuidCount, clock, api_key>>

\* the except branch of analyze_document: mark failed, save, re-raise; the
\* view answers 500
AnalyzeFailedMutant(r, message) ==
    /\ records' = records
    /\ req' = [req EXCEPT ![r] = [Idle EXCEPT !.op = "analyze", !.pc = "done",
                   !.id = req[r].id, !.code = 500,
                   !.body = [error |-> message]]]

AnalyzeFailed(r, message) ==
    LET document == [req[r].document EXCEPT !.analysis_status = "failed",
                                            !.analysis_result = message]
    IN  /\ records' = save_document(records, document)
        /\ req' = [req EXCEPT ![r] = [Idle EXCEPT !.op = "analyze", !.pc = "done",
                       !.id = req[r].id, !.code = 500,
                       !.body = [error |-> message]]]

\* extract_text_from_pdf: text, no text, or an exception from PyMuPDF
AnalyzeExtract(r) ==
    /\ req[r].op = "analyze" /\ req[r].pc = "an_extract"
    /\ \/ /\ file_exists(files, req[r].document.filepath)
          /\ req' = [req EXCEPT ![r].pc = "an_api"]
          /\ UNCHANGED records
       \/ /\ file_exists(files, req[r].document.filepath)
          /\ AnalyzeFailed(r, "Analysis failed: No text content could be extracted")
       \/ AnalyzeFailed(r, "Analysis failed: Failed to extract text from PDF")
    /\ UNCHANGED <<files, nextId, uuidCount, clock, api_key>>

\* the document as analyze_document leaves it after a successful API call
MarkCompletedMutant(document, analysis_result, now) ==
    [document EXCEPT !.analysis_result = analysis_result,
                     !.analysis_status = "completed"]

MarkCompleted(document, analysis_result, now) ==
    [document EXCEPT !.analysis_result = analysis_result,
                     !.analysis_status = "completed",
                     !.analyzed_at = now]

\* analyze_medical_document: the completion, or an API error or timeout
AnalyzeApiMutant(r) ==
    /\ req[r].op = "analyze" /\ req[r].pc = "an_api"
    /\ req' = [req EXCEPT ![r] = [Idle EXCEPT !.op = "analyze", !.pc = "done",
                   !.id = req[r].id, !.code = 200,
                   !.body = [analysis |-> "analysis"]]]
    /\ UNCHANGED <<files, records, nextId, uuidCount, clock, api_key>>

AnalyzeApi(r) ==
    /\ req[r].op = "analyze" /\ req[r].pc = "an_api"
    /\ \/ LET document == MarkCompleted(req[r].document, "analysis", clock + 1)
          IN  /\ records' = save_document(records, document)
              /\ req' = [req EXCEPT ![r] = [Idle EXCEPT !.op = "analyze", !.pc = "done",
                             !.id = req[r].id, !.code = 200,
                             !.body = [analysis |-> "analysis"]]]
       \/ AnalyzeFailed(r, "Analysis failed: AI analysis failed")
    /\ UNCHANGED <<files, nextId, uuidCount, clock, api_key>>

(* ---------------- get_document_analysis ---------------- *)
GetAnalysis(r) ==
    \E id \in RequestIds :
        /\ Free(r)
        /\ LET document == get_document_by_id(records, validate_document_id(id))
               started == [Idle EXCEPT !.op = "analysis", !.pc = "done", !.id = id]
           IN  req' = [req EXCEPT ![r] =
                   IF validate_document_id(id) = 0
                   THEN [started EXCEPT !.code = 400,
                            !.body = [error |-> "Document ID must be a positive integer"]]
                   ELSE IF document = NoDoc
                   THEN [started EXCEPT !.code = 404,
                            !.body = [error |-> "Document not found"]]
                   ELSE [started EXCEPT !.code = 200,
                            !.body = [analysis |-> document.analysis_result,
                                      status |-> document.analysis_status,
                                      analyzed_at |-> document.analyzed_at]]]
        /\ UNCHANGED <<files, records, nextId, uuidCount, clock, api_key>>

\* the response has been sent; the worker is free again
Finish(r) ==
    /\ req[r].pc = "done"
    /\ req' = [req EXCEPT ![r] = Idle]
    /\ UNCHANGED <<files, records, nextId, uuidCount, clock, api_key>>

Next ==
    \E r \in Workers :
        \/ UploadRejected(r)
        \/ UploadOpen(r)
        \/ UploadWrite(r)
        \/ UploadWriteFail(r)
        \/ UploadVerify(r)
        \/ UploadContentRejected(r)
        \/ UploadContentAccepted(r)
        \/ UploadCreate(r)
        \/ UploadCreateFail(r)
        \/ DeleteStart(r)
        \/ DeleteFile(r)
        \/ DeleteRecord(r)
        \/ DownloadStart(r)
        \/ DownloadCheck(r)
        \/ DownloadOpen(r)
        \/ ListDocuments(r)
        \/ HealthSave(r)
        \/ HealthProbe(r)
        \/ AnalyzeStart(r)
        \/ AnalyzeCheck(r)
        \/ AnalyzeMark(r)
        \/ AnalyzeExtract(r)
        \/ AnalyzeApi(r)
        \/ GetAnalysis(r)
        \/ Finish(r)

Spec == Init /\ [][Next]_vars

(* ---------------- analysis and deletion of one uploaded document ---------------- *)
\* the state after one upload of "a.pdf" with content "%PDF-1" was answered 201
InitUploaded ==
    LET content == [head |-> <<37, 80, 68, 70, 45, 49>>, pad |-> 0]
    IN  /\ files = [p \in Paths |-> IF p = 1 THEN content ELSE NoFile]
        /\ records = [i \in 1..MaxDocs |->
               IF i = 1
               THEN create_document_record(sanitize_filename(<<97, 46, 112, 100, 102>>),
                                           1, Size(content), 1, 1)
               ELSE NoDoc]
        /\ nextId = 2
        /\ uuidCount = 1
        /\ clock = 1
        /\ api_key \in BOOLEAN
        /\ req = [r \in Reqs |-> Idle]

NextAnalysis ==
    \E r \in Reqs :
        \/ DeleteStart(r)
        \/ DeleteFile(r)
        \/ DeleteRecord(r)
        \/ AnalyzeStart(r)
        \/ AnalyzeCheck(r)
        \/ AnalyzeMark(r)
        \/ AnalyzeExtract(r)
        \/ AnalyzeApi(r)
        \/ Finish(r)

SpecAnalysis == InitUploaded /\ [][NextAnalysis]_vars

\* a request that has begun an analysis runs it to its end: the extraction
\* returns or raises, the API call returns, fails or times out after 60 s
NextAnalysisFair ==
    \E r \in Workers :
        \/ DeleteStart(r)
        \/ DeleteFile(r)
        \/ DeleteRecord(r)
        \/ AnalyzeStart(r)
        \/ AnalyzeCheck(r)
        \/ AnalyzeMark(r)
        \/ AnalyzeExtract(r)
        \/ AnalyzeApi(r)
        \/ Finish(r)

SpecAnalysisFair ==
    /\ InitUploaded
    /\ [][NextAnalysisFair]_vars
    /\ \A r \in Workers :
           /\ WF_vars(AnalyzeMark(r))
           /\ WF_vars(AnalyzeExtract(r))
           /\ WF_vars(AnalyzeApi(r))

(* ---------------- uploads, health checks and listings ---------------- *)
\* an empty portal whose table has room for one more document than Spec's
InitUploads ==
    /\ files = [p \in Paths |-> NoFile]
    /\ records = [i \in 1..(MaxDocs + 1) |-> NoDoc]
    /\ nextId = 1
    /\ uuidCount = 0
    /\ clock = 0
    /\ api_key = FALSE
    /\ req = [r \in Reqs |-> Idle]

NextUploads ==
    \E r \in Workers :
        \/ UploadRejected(r)
        \/ UploadOpen(r)
        \/ UploadWrite(r)
        \/ UploadWriteFail(r)
        \/ UploadVerify(r)
        \/ UploadContentRejected(r)
        \/ UploadContentAccepted(r)
        \/ UploadCreate(r)
        \/ UploadCreateFail(r)
        \/ ListDocuments(r)
        \/ HealthSave(r)
        \/ HealthProbe(r)
        \/ Finish(r)

SpecUploads == InitUploads /\ [][NextUploads]_vars

(* ---------------- validation of uploads around the size limit ---------------- *)
UploadRejectedLarge(r) ==
    \E name \in Names, content \in LargeContents, content_type \in ContentTypes :
        RejectUpload(r, name, content, content_type)

UploadOpenLarge(r) ==
    \E name \in Names, content \in LargeContents, content_type \in ContentTypes :
        OpenUpload(r, name, content, content_type)

\* the serializer's verdict on each upload, and the open of an accepted one
NextValidation ==
    \E r \in Workers :
        \/ UploadRejectedLarge(r)
        \/ UploadOpenLarge(r)
        \/ Finish(r)

SpecValidation == Init /\ [][NextValidation]_vars

(* ---------------- uploads whose files are removed from outside ---------------- *)
\* a stored file is removed by something other than the portal (the upload
\* directory is an ordinary directory); an open handle goes on writing to the
\* unlinked file
FileLost ==
    \E p \in Paths :
        /\ file_exists(files, p)
        /\ files' = [files EXCEPT ![p] = NoFile]
        /\ UNCHANGED <<records, nextId, uuidCount, clock, api_key, req>>

NextVerify ==
    \/ FileLost
    \/ \E r \in Workers :
           \/ UploadRejected(r)
           \/ UploadOpen(r)
           \/ UploadWrite(r)
           \/ UploadWriteFail(r)
           \/ UploadVerify(r)
           \/ UploadContentRejected(r)
           \/ UploadContentAccepted(r)
           \/ UploadCreate(r)
           \/ UploadCreateFail(r)
           \/ Finish(r)

SpecVerify == Init /\ [][NextVerify]_vars

(* ---------------- sanitize_filename on its own ---------------- *)
Repeat(ch, n) == [i \in 1..n |-> ch]

\* "", "a.pdf", "a.txt", "A.PDF", "a b.pdf", "a/b", a control character, and
\* names of a's around the length limit, with and without ".pdf"
SanitizeInputs ==
    { <<>>,
      <<97, 46, 112, 100, 102>>,
      <<97, 46, 116, 120, 116>>,
      <<65, 46, 80, 68, 70>>,
      <<97, 32, 98, 46, 112, 100, 102>>,
      <<97, 47, 98>>,
      <<1>>,
      Repeat(97, MAX_NAME_LEN - 4),
      Repeat(97, MAX_NAME_LEN - 4) \o PDF_EXT,
      Repeat(97, MAX_NAME_LEN - 2),
      Repeat(97, MAX_NAME_LEN),
      Repeat(97, MAX_NAME_LEN + 1) \o PDF_EXT }

\* a call of InputValidator.sanitize_filename(name)
Sanitize(r) ==
    \E name \in SanitizeInputs :
        /\ Free(r)
        /\ req' = [req EXCEPT ![r] = [Idle EXCEPT !.op = "sanitize", !.pc = "done",
                       !.name = name,
                       !.body = [error |-> "", filename |-> sanitize_filename(name)]]]
        /\ UNCHANGED <<files, records, nextId, uuidCount, clock, api_key>>

NextSanitize ==
    \E r \in Workers :
        \/ Sanitize(r)
        \/ Finish(r)

SpecSanitize == Init /\ [][NextSanitize]_vars

(* ======================= properties ======================= *)
Answered(r) == req[r].pc # "done" /\ req'[r].pc = "done"

RecordOfPath(recs, p) == {i \in Ids : recs[i] # NoDoc /\ recs[i].filepath = p}

C2_AnyContentIsAccepted ==
    [][\A r \in Reqs :
          (req[r].op = "upload" /\ Answered(r) /\ Size(req[r].content) > 0
             /\ req'[r].code # 500) =>
              /\ req'[r].code = 201
              /\ req'[r].body.filename = req[r].name
              /\ req'[r].body.filesize = Size(req[r].content)
              /\ get_document_by_id(records', req'[r].body.id) # NoDoc
              /\ file_exists(files', records'[req'[r].body.id].filepath)]_vars

\* C3: when an upload is answered 201, the bytes at the record's filepath are
\* the uploaded bytes and their length is the record's filesize.
C3_StoredBytesAreUploadedBytes ==
    [][\A r \in Reqs :
          (req[r].op = "upload" /\ Answered(r) /\ req'[r].code = 201) =>
              LET document == records'[req'[r].body.id]
              IN  /\ file_exists(files', document.filepath)
                  /\ files'[document.filepath] = req[r].content
                  /\ get_file_size(files', document.filepath) = document.filesize
                  /\ document.filesize = Size(req[r].content)]_vars

\* an upload written in more than one chunk has been answered 201
C3_Witness ==
    \E r \in Reqs :
        /\ req[r].op = "upload" /\ req[r].pc = "done" /\ req[r].code = 201
        /\ file_exists(files, req[r].document.filepath)
        /\ Size(files[req[r].document.filepath]) > ChunkSize

\* C4: a delete answered 200 has removed the record and the file at its
\* filepath, and from then on the id has no record (so every later download
\* or get of that id is answered not-found).
C4_DeletedStaysDeleted ==
    /\ [][\A r \in Reqs :
             (req[r].op = "delete" /\ Answered(r) /\ req'[r].code = 200) =>
                 /\ records'[req[r].id] = NoDoc
                 /\ ~file_exists(files', req[r].document.filepath)]_vars
    /\ [][\A i \in Ids :
             (i < nextId /\ records[i] = NoDoc) => records'[i] = NoDoc]_vars

Quiescent == \A r \in Reqs : req[r].pc \in {"idle", "done"}

\* C5: when no request is in progress, a record exists iff a file exists at
\* its filepath: every record has its file and every stored file has a record.
C5_RecordIffFile ==
    Quiescent =>
        /\ \A i \in Ids : records[i] # NoDoc => file_exists(files, records[i].filepath)
        /\ \A p \in Paths : file_exists(files, p) => RecordOfPath(records, p) # {}

\* C6 as stated: whenever a record exists, its filesize is get_file_size of
\* its filepath.
C6_FilesizeAtAllTimes ==
    \A i \in Ids :
        records[i] # NoDoc => get_file_size(files, records[i].filepath) = records[i].filesize

\* C6 amended: whenever a record exists and a file exists at its filepath, the
\* record's filesize is get_file_size of that filepath.
C6_FilesizeWhileFileExists ==
    \A i \in Ids :
        (records[i] # NoDoc /\ file_exists(files, records[i].filepath)) =>
            get_file_size(files, records[i].filepath) = records[i].filesize

\* a record whose file exists, while a delete of another request has fetched it
C6_Witness ==
    \E i \in Ids, r \in Reqs :
        /\ records[i] # NoDoc /\ file_exists(files, records[i].filepath)
        /\ records[i].filesize > ChunkSize
        /\ req[r].op = "delete" /\ req[r].pc = "del_file" /\ req[r].id = i

StatusChange(i) ==
    /\ records[i] # NoDoc /\ records'[i] # NoDoc
    /\ records'[i].analysis_status # records[i].analysis_status

Created(i) == records[i] = NoDoc /\ i >= nextId /\ records'[i] # NoDoc

\* C8 as stated: a document starts pending, and its status only ever goes
\* pending -> processing, processing -> completed, processing -> failed.
C8_OnlyForwardTransitions ==
    [][\A i \in Ids :
          /\ Created(i) => records'[i].analysis_status = "pending"
          /\ StatusChange(i) =>
                <<records[i].analysis_status, records'[i].analysis_status>> \in
                    { <<"pending", "processing">>, <<"processing", "completed">>,
                      <<"processing", "failed">> }]_vars

\* C8 amended: a document starts pending, leaves pending only for
\* processing, and never returns to pending; completed and failed are not
\* terminal.
C8_PendingOnlyToProcessing ==
    [][\A i \in Ids :
          /\ Created(i) => records'[i].analysis_status = "pending"
          /\ StatusChange(i) =>
                /\ records'[i].analysis_status # "pending"
                /\ records[i].analysis_status = "pending" =>
                       records'[i].analysis_status = "processing"]_vars

\* a document that was completed once is processing again
C8_Witness ==
    \E i \in Ids :
        /\ records[i] # NoDoc
        /\ records[i].analysis_status = "processing"
        /\ records[i].analyzed_at # NullTime

AtStatusCheck(r) ==
    /\ req[r].op = "analyze" /\ req[r].pc = "an_check"
    /\ req[r].document.analysis_status = "processing"
    /\ req'[r] # req[r]

\* C9 as stated: an analyze request that fetched the document while its
\* status was processing is answered 202, invokes neither extraction nor the
\* API and changes no field.
C9_ProcessingAnswered202 ==
    [][\A r \in Reqs :
          AtStatusCheck(r) =>
              /\ req'[r].pc = "done" /\ req'[r].code = 202
              /\ records' = records /\ files' = files]_vars

\* C9 amended: such a request is answered 202, or 404 when no file exists at
\* the document's filepath; either way it invokes neither extraction nor the
\* API and changes no field.
C9_ProcessingNotReanalyzed ==
    [][\A r \in Reqs :
          AtStatusCheck(r) =>
              /\ req'[r].pc = "done"
              /\ req'[r].code = IF file_exists(files, req[r].document.filepath)
                                THEN 202 ELSE 404
              /\ records' = records /\ files' = files]_vars

\* a second analyze request has been answered 202 while the first is running
C9_Witness ==
    \E r, q \in Reqs :
        /\ req[r].op = "analyze" /\ req[r].pc = "done" /\ req[r].code = 202
        /\ req[q].op = "analyze" /\ req[q].pc \in {"an_extract", "an_api"}
        /\ req[q].id = req[r].id

Analyzing(r) == req[r].op = "analyze" /\ req[r].pc \in {"an_extract", "an_api"}

\* C10: no two analyze requests on the same document are between setting
\* processing and storing completed or failed at the same time.
C10_NoDoubleTrigger ==
    \A r, q \in Reqs :
        (r # q /\ Analyzing(r) /\ Analyzing(q)) => req[r].id # req[q].id

\* C11: a download is answered 404 when no record has the id, 404 when the
\* record exists but no file exists at its filepath, and otherwise 200 with
\* the record's filename and a content length equal to its filesize; no step
\* of a download changes a record or a file.
C11_DownloadContract ==
    [][\A r \in Reqs :
          (req'[r].op = "download" /\ req'[r] # req[r]) =>
              /\ files' = files /\ records' = records
              /\ (Answered(r) /\ validate_document_id(req'[r].id) # 0) =>
                    IF req[r].op = "idle"
                    THEN /\ get_document_by_id(records, req'[r].id) = NoDoc
                         /\ req'[r].code = 404
                    ELSE IF ~file_exists(files, req[r].document.filepath)
                    THEN req'[r].code = 404
                    ELSE /\ req'[r].code = 200
                         /\ req'[r].body.filename = req[r].document.filename
                         /\ req'[r].body.content_length = req[r].document.filesize]_vars

Saves(r) == req[r].op = "idle" /\ req'[r].op \in {"upload", "health"} /\ req'[r].pc # "done"

Uploads(r) == req[r].op = "idle" /\ req'[r].op = "upload"

Rejected(r, message) ==
    /\ req'[r].pc = "done" /\ req'[r].code = 400
    /\ req'[r].body.error = message
    /\ UNCHANGED <<files, records, nextId, uuidCount>>

\* C14: upload validation checks filename safety, then the extension, then
\* the size, then the MIME type; the upload is rejected with the error of the
\* first check that fails, whatever the later checks would say, and a
\* rejected upload performs no storage or record operation.
C14_FirstFailingCheckReported ==
    [][\A r \in Reqs :
          Uploads(r) =>
              LET name == req'[r].name
                  size == Size(req'[r].content)
                  content_type == req'[r].content_type
              IN  IF validate_filename_safety(name) # "ok"
                  THEN Rejected(r, validate_filename_safety(name))
                  ELSE IF validate_file_extension(name) # "ok"
                  THEN Rejected(r, validate_file_extension(name))
                  ELSE IF validate_file_size(size) # "ok"
                  THEN Rejected(r, validate_file_size(size))
                  ELSE IF validate_mime_type(content_type) # "ok"
                  THEN Rejected(r, validate_mime_type(content_type))
                  ELSE req'[r].pc = "write"]_vars

\* an upload that fails all four checks was rejected for its filename
C14_Witness ==
    \E r \in Reqs :
        /\ req[r].op = "upload" /\ req[r].pc = "done" /\ req[r].code = 400
        /\ validate_file_extension(req[r].name) # "ok"
        /\ validate_file_size(Size(req[r].content)) # "ok"
        /\ validate_mime_type(req[r].content_type) # "ok"
        /\ req[r].body.error = "Filename contains invalid path characters"

\* C20: the size check fails exactly for sizes above 10 MiB: an upload with a
\* valid name and MIME type is rejected iff it is larger than 10 * 1024 * 1024
\* bytes, so one of exactly 10 MiB is accepted and one of 11 MiB or more is
\* rejected by the serializer for its size.
C20_RejectedIffAboveTenMiB ==
    [][\A r \in Reqs :
          (/\ Uploads(r)
           /\ validate_filename_safety(req'[r].name) = "ok"
           /\ validate_file_extension(req'[r].name) = "ok"
           /\ validate_mime_type(req'[r].content_type) = "ok") =>
              LET size == Size(req'[r].content)
              IN  /\ size > 10 * 1024 * 1024 <=> validate_file_size(size) # "ok"
                  /\ size > 10 * 1024 * 1024 <=> req'[r].code = 400
                  /\ size = 10 * 1024 * 1024 => req'[r].pc = "write"
                  /\ size >= 11 * 1024 * 1024 =>
                         Rejected(r, "File size exceeds maximum")]_vars

\* an upload of exactly 10 MiB was accepted and one of 11 MiB was rejected
C20_Witness ==
    \E r, q \in Reqs :
        /\ req[r].op = "upload" /\ req[r].pc = "write"
        /\ Size(req[r].content) = 10 * 1024 * 1024
        /\ req[q].op = "upload" /\ req[q].pc = "done" /\ req[q].code = 400
        /\ Size(req[q].content) = 11 * 1024 * 1024
        /\ req[q].body.error = "File size exceeds maximum"

C16_NoCredentialIs503 ==
    [][\A r \in Reqs :
          (req[r].op = "analyze" /\ req[r].pc = "an_check" /\ req'[r] # req[r]
             /\ ~api_key /\ file_exists(files, req[r].document.filepath)) =>
              /\ req'[r].pc = "done" /\ req'[r].code = 503
              /\ records' = records /\ files' = files]_vars

\* an analyze request was answered 503 and its document is still pending
C16_Witness ==
    \E r \in Reqs :
        /\ req[r].op = "analyze" /\ req[r].pc = "done" /\ req[r].code = 503
        /\ get_document_by_id(records, req[r].id) # NoDoc
        /\ records[req[r].id].analysis_status = "pending"
        /\ records[req[r].id].analysis_result = Null

\* C17: when extraction yields no text or raises, or the API call fails or
\* times out, the analysis stores analysis_status failed with the error
\* message in analysis_result and the caller is answered with that error
\* (500), not with a success; a success answer goes with status completed.
C17_FailureMarksFailed ==
    [][\A r \in Reqs :
          (req[r].op = "analyze" /\ req[r].pc \in {"an_extract", "an_api"}
             /\ Answered(r)) =>
              LET document == get_document_by_id(records', req[r].id)
              IN  /\ document # NoDoc
                  /\ IF req'[r].code = 200
                     THEN /\ req[r].pc = "an_api"
                          /\ document.analysis_status = "completed"
                     ELSE /\ req'[r].code = 500
                          /\ document.analysis_status = "failed"
                          /\ document.analysis_result = req'[r].body.error
                          /\ document.analysis_result \in
                                 { "Analysis failed: No text content could be extracted",
                                   "Analysis failed: Failed to extract text from PDF",
                                   "Analysis failed: AI analysis failed" }]_vars

\* the API call failed or timed out: the document is failed, the answer is 500
C17_Witness ==
    \E r \in Reqs :
        /\ req[r].op = "analyze" /\ req[r].pc = "done" /\ req[r].code = 500
        /\ req[r].body.error = "Analysis failed: AI analysis failed"
        /\ get_document_by_id(records, req[r].id) # NoDoc
        /\ records[req[r].id].analysis_status = "failed"
        /\ records[req[r].id].analysis_result = req[r].body.error

\* C18: a download or delete request whose id is not positive is answered
\* 400, one whose id matches no record is answered 404, and neither changes
\* any record or any stored file.
C18_BadIdChangesNothing ==
    [][\A r \in Reqs :
          (req[r].op = "idle" /\ req'[r].op \in {"download", "delete"}
             /\ (req'[r].id <= 0 \/ get_document_by_id(records, req'[r].id) = NoDoc)) =>
              /\ req'[r].pc = "done"
              /\ req'[r].code = IF req'[r].id <= 0 THEN 400 ELSE 404
              /\ records' = records /\ files' = files]_vars

\* a delete with id 0 was answered 400 while a document and its file exist
C18_Witness ==
    \E r \in Reqs, i \in Ids :
        /\ req[r].op = "delete" /\ req[r].pc = "done" /\ req[r].code = 400
        /\ records[i] # NoDoc /\ file_exists(files, records[i].filepath)

\* C21: for every input, sanitize_filename returns a name of at most 255
\* characters that ends with ".pdf" (in any case) and in which every character
\* of the input other than alphanumerics and . - _ ( ) [ ] { } is replaced by
\* "_", so that no separator and no control character is left.
C21_SanitizedName ==
    \A r \in Reqs :
        (req[r].op = "sanitize" /\ req[r].pc = "done") =>
            LET name == req[r].name
                sanitized == req[r].body.filename
            IN  /\ Len(sanitized) <= 255
                /\ EndsWith(LowerStr(sanitized), <<46, 112, 100, 102>>)
                /\ \A i \in 1..Len(sanitized) :
                       /\ IsAlnum(sanitized[i]) \/ sanitized[i] \in SafePunctuation
                       /\ i <= Len(name) =>
                              sanitized[i] = IF IsAlnum(name[i]) \/ name[i] \in SafePunctuation
                                             THEN name[i] ELSE 95

C23_ProcessingEnds ==
    \A i \in 1..MaxDocs :
        (records[i] # NoDoc /\ records[i].analysis_status = "processing") ~>
            (records[i] = NoDoc \/ records[i].analysis_status \in {"completed", "failed"})

\* an analysis that set processing has stored completed and been answered
C23_Witness ==
    \E r \in Reqs :
        /\ req[r].op = "analyze" /\ req[r].pc = "done" /\ req[r].code = 200
        /\ get_document_by_id(records, req[r].id) # NoDoc
        /\ records[req[r].id].analysis_status = "completed"

\* the fields of a row that an analysis must leave alone
Immutable(row) ==
    IF row = NoDoc THEN NoDoc
    ELSE [id |-> row.id, filename |-> row.filename, filepath |-> row.filepath,
          filesize |-> row.filesize, created_at |-> row.created_at]

\* C24: a step of an analyze request changes nothing but analysis_status,
\* analysis_result and analyzed_at of its own document: the other fields of
\* that document, every other document and the stored files stay as they are.
C24_OnlyAnalysisFields ==
    [][\A r \in Reqs :
          (req'[r].op = "analyze" /\ req'[r] # req[r]) =>
              /\ files' = files
              /\ \A i \in Ids :
                     IF i = req'[r].id
                     THEN Immutable(records'[i]) = Immutable(records[i])
                     ELSE records'[i] = records[i]]_vars

\* C25: when save_file has returned and no file exists at the returned path,
\* the upload is answered 500 with the storage error and creates no record.
C25_MissingFileAfterSave ==
    [][\A r \in Reqs :
          (/\ req[r].op = "upload" /\ req[r].pc = "write" /\ req'[r] # req[r]
           /\ req[r].written = Size(req[r].content)
           /\ ~file_exists(files, req[r].file_path)) =>
              /\ req'[r].pc = "done" /\ req'[r].code = 500
              /\ req'[r].body.error = "Failed to save file to storage"
              /\ records' = records
              /\ RecordOfPath(records', req[r].file_path) = {}]_vars

\* an upload whose file vanished after the save was answered with the storage error
C25_Witness ==
    \E r \in Reqs :
        /\ req[r].op = "upload" /\ req[r].pc = "done" /\ req[r].code = 500
        /\ req[r].body.error = "Failed to save file to storage"
        /\ RecordOfPath(records, req[r].file_path) = {}

\* C26: an upload inserts its record only after its file has been written
\* completely: in the state before the insert the file at the record's
\* filepath exists and holds all the uploaded bytes, so no list or download
\* interleaved with the upload sees the record before the file is complete.
C26_FileBeforeRecord ==
    [][\A r \in Reqs :
          (req[r].op = "upload" /\ req'[r] # req[r] /\ records' # records) =>
              \E i \in Ids :
                  /\ Created(i)
                  /\ \A j \in Ids \ {i} : records'[j] = records[j]
                  /\ records'[i].filepath = req[r].file_path
                  /\ req[r].written = Size(req[r].content)
                  /\ file_exists(files, records'[i].filepath)
                  /\ files[records'[i].filepath] = req[r].content
                  /\ files' = files]_vars

\* a download interleaved with nothing else got all bytes of a two-chunk upload
C26_Witness ==
    \E r \in Reqs :
        /\ req[r].op = "download" /\ req[r].pc = "done" /\ req[r].code = 200
        /\ Size(req[r].body.content) > ChunkSize
        /\ req[r].body.content_length = Size(req[r].body.content)

\* C27: a document deleted while an analyze request on it is in progress
\* stays deleted: no save of the analyzer puts a record back under an id whose
\* record a delete has removed.
C27_AnalyzerNeverRecreates ==
    [][\A r \in Reqs :
          (req[r].op = "analyze" /\ req'[r] # req[r]) =>
              \A i \in Ids :
                  (i < nextId /\ records[i] = NoDoc) => records'[i] = NoDoc]_vars

\* C28: every download and every delete request is answered 200, 400 or 404,
\* never 500, however downloads and deletes of the same id interleave.
C28_NeverInternalError ==
    \A r \in Reqs :
        (req[r].op \in {"download", "delete"} /\ req[r].pc = "done") =>
            req[r].code \in {200, 400, 404}

\* C29: an upload whose write raises after the destination file was opened
\* is answered with no file left at its path and no record created.
C29_FailedWriteLeavesNothing ==
    [][\A r \in Reqs :
          (/\ req[r].op = "upload" /\ req[r].pc = "write" /\ Answered(r)
           /\ req[r].written < Size(req[r].content)) =>
              /\ ~file_exists(files', req[r].file_path)
              /\ records' = records]_vars

\* request r holds a fetched document in memory
HoldsDocument(r) ==
    req[r].op = "analyze" /\ req[r].pc \in {"an_check", "an_mark", "an_extract", "an_api"}

\* C30: in every state a completed document has a non-null analysis_result
\* and a non-null analyzed_at; and analyzed_at is non-null only for documents
\* that reached completed: a record gets a non-null analyzed_at in the step
\* that stores completed, or from the save of a copy fetched after that, and
\* a request's copy has it only if the record it fetched had it.
C30_CompletedHasResultAndTime ==
    /\ [](\A i \in Ids :
             (records[i] # NoDoc /\ records[i].analysis_status = "completed") =>
                 /\ records[i].analysis_result # Null
                 /\ records[i].analyzed_at # NullTime)
    /\ [][\A i \in Ids :
             (/\ records'[i] # NoDoc /\ records'[i].analyzed_at # NullTime
              /\ (records[i] = NoDoc \/ records[i].analyzed_at = NullTime)) =>
                 \/ records'[i].analysis_status = "completed"
                 \/ \E r \in Reqs : /\ HoldsDocument(r) /\ req[r].document.id = i
                                     /\ req[r].document.analyzed_at # NullTime]_vars
    /\ [][\A r \in Reqs :
             (req[r].op = "idle" /\ req'[r].op = "analyze" /\ req'[r].pc = "an_check") =>
                 req'[r].document = records[req'[r].id]]_vars

\* a document is completed while a second analyze request, which fetched it
\* as pending, is about to save its copy
C30_Witness ==
    \E r \in Reqs :
        /\ req[r].op = "analyze" /\ req[r].pc = "an_mark"
        /\ req[r].document.analysis_status = "pending"
        /\ get_document_by_id(records, req[r].id) # NoDoc
        /\ records[req[r].id].analysis_status = "completed"
        /\ records[req[r].id].analyzed_at # NullTime

====
